---- MODULE Spec2Model ----
(***************************************************************************)
(* Model of cli/ccfddl/convert_to_ical_diy.py: the conversion of           *)
(* conference-deadline records into an iCalendar feed.                     *)
(*                                                                         *)
(* Strings whose characters the code inspects (timezone descriptors,       *)
(* titles, requested names, TZIDs) are sequences of one-character strings. *)
(* A deadline string is a record [text, f]: text is "TBD" or "num", and f  *)
(* is the tuple of the numeric fields the string carries, in order         *)
(* (year, month, day[, hour, minute, second]).                            *)
(***************************************************************************)
EXTENDS Integers, Sequences, FiniteSets, TLC

VARIABLES
    \* get_timezone / create_vtimezone applied to one descriptor
    tz_str, tz_res, tz_id,
    \* the rank summary of one rank mapping
    rank_in, level_res,
    \* the time fields of one event
    ev_str, ev_tz, ev_res,
    \* convert_conferences_to_ical: position in the code, loop variables,
    \* the calendar under construction and the output file
    pc, rank, timezone_str, entry, deadline_list, cal, added_tzids,
    out, out_data, n_inst, entry_id,
    \* main: the conference directory, the requested names, position in main,
    \* the results of the two passes, the argument handed to the conversion,
    \* the message printed and the exit code
    fs, conf_names, mpc, file_paths, filtered_conferences, handed, message, exit_code

tzvars == <<tz_str, tz_res, tz_id>>
rankvars == <<rank_in, level_res>>
evvars == <<ev_str, ev_tz, ev_res>>
convvars == <<pc, rank, timezone_str, entry, deadline_list, cal, added_tzids,
              out, out_data, n_inst, entry_id>>
mainvars == <<fs, conf_names, mpc, file_paths, filtered_conferences, handed,
              message, exit_code>>
vars == <<tzvars, rankvars, evvars, convvars, mainvars>>

----------------------------------------------------------------------------
(* Characters *)

DigitChars == <<"0", "1", "2", "3", "4", "5", "6", "7", "8", "9">>

IsDigit(c) == \E k \in 1..10 : DigitChars[k] = c

\* int() of one decimal digit
DigitVal(c) == (CHOOSE k \in 1..10 : DigitChars[k] = c) - 1

\* int(hours) of a digit string
RECURSIVE IntOf(_)
IntOf(ds) ==
    IF ds = <<>> THEN 0
    ELSE 10 * IntOf(SubSeq(ds, 1, Len(ds) - 1)) + DigitVal(ds[Len(ds)])

Str_AoE == <<"A", "o", "E">>
Str_UTC == <<"U", "T", "C">>

----------------------------------------------------------------------------
(* get_timezone *)

\* re.match(r"UTC([+-])(\d{1,2})$", tz_str): the groups, or matched = FALSE.
\* "$" also matches just before one trailing newline.
RegexBody(s) ==
    IF Len(s) > 0 /\ s[Len(s)] = "\n" THEN SubSeq(s, 1, Len(s) - 1) ELSE s

TzRegexMatch(s) ==
    LET b == RegexBody(s)
    IN  IF /\ Len(b) \in 5..6
           /\ SubSeq(b, 1, 3) = Str_UTC
           /\ b[4] \in {"+", "-"}
           /\ \A k \in 5..Len(b) : IsDigit(b[k])
        THEN [matched |-> TRUE, sign |-> b[4], hours |-> SubSeq(b, 5, Len(b))]
        ELSE [matched |-> FALSE, sign |-> "", hours |-> <<>>]

\* datetime.timezone(timedelta(hours = h)) raises ValueError unless the offset
\* is strictly between -24 h and +24 h.
TimezoneOf(h) ==
    IF -24 < h /\ h < 24
    THEN [ok |-> TRUE, hours |-> h]
    ELSE [ok |-> FALSE, hours |-> 0]

\* get_timezone with the sign of the descriptor ignored
get_timezone_unsigned(s) ==
    IF s = Str_AoE THEN TimezoneOf(-12)
    ELSE LET m == TzRegexMatch(s)
         IN  IF ~m.matched THEN [ok |-> FALSE, hours |-> 0]
             ELSE TimezoneOf(IntOf(m.hours))

get_timezone(s) ==
    IF s = Str_AoE THEN TimezoneOf(-12)
    ELSE LET m == TzRegexMatch(s)
         IN  IF ~m.matched THEN [ok |-> FALSE, hours |-> 0]
             ELSE TimezoneOf(IF m.sign = "+" THEN IntOf(m.hours) ELSE -IntOf(m.hours))

\* f"UTC{offset_hours:+03.0f}:00"
Abs(h) == IF h < 0 THEN -h ELSE h

RECURSIVE Digits(_)
Digits(n) == IF n < 10 THEN <<DigitChars[n + 1]>> ELSE Digits(n \div 10) \o <<DigitChars[(n % 10) + 1]>>

TzIdOf(h) ==
    LET ds == Digits(Abs(h))
        body == IF Len(ds) < 2 THEN <<"0">> \o ds ELSE ds
    IN  Str_UTC \o <<IF h < 0 THEN "-" ELSE "+">> \o body \o <<":", "0", "0">>

----------------------------------------------------------------------------
(* datetime: strptime, and the addition of a timedelta *)

TBD == [text |-> "TBD", f |-> <<>>]

IsLeap(y) == y % 4 = 0 /\ (y % 100 # 0 \/ y % 400 = 0)

DaysInMonth(y, m) ==
    IF m = 2 THEN (IF IsLeap(y) THEN 29 ELSE 28)
    ELSE IF m \in {4, 6, 9, 11} THEN 30 ELSE 31

ValidDate(y, m, d) == y \in 1..9999 /\ m \in 1..12 /\ d \in 1..DaysInMonth(y, m)

ValidTime(h, mi, sec) == h \in 0..23 /\ mi \in 0..59 /\ sec \in 0..59

\* datetime.strptime(deadline_str, "%Y-%m-%d %H:%M:%S") does not raise ValueError
ParsesFull(ds) ==
    /\ ds.text = "num"
    /\ Len(ds.f) = 6
    /\ ValidDate(ds.f[1], ds.f[2], ds.f[3])
    /\ ValidTime(ds.f[4], ds.f[5], ds.f[6])

\* datetime.strptime(deadline_str, "%Y-%m-%d") does not raise ValueError
ParsesDate(ds) ==
    /\ ds.text = "num"
    /\ Len(ds.f) = 3
    /\ ValidDate(ds.f[1], ds.f[2], ds.f[3])

\* date.toordinal()
DaysBeforeYear(y) == (y - 1) * 365 + (y - 1) \div 4 - (y - 1) \div 100 + (y - 1) \div 400

RECURSIVE DaysBeforeMonth(_, _)
DaysBeforeMonth(y, m) ==
    IF m = 1 THEN 0 ELSE DaysBeforeMonth(y, m - 1) + DaysInMonth(y, m - 1)

ToOrdinal(y, m, d) == DaysBeforeYear(y) + DaysBeforeMonth(y, m) + d

\* date.fromordinal(n)
FromOrdinal(n) ==
    LET n0 == n - 1
        n400 == n0 \div 146097
        r400 == n0 % 146097
        n100 == r400 \div 36524
        r100 == r400 % 36524
        n4 == r100 \div 1461
        r4 == r100 % 1461
        n1 == r4 \div 365
        r1 == r4 % 365
        year == n400 * 400 + 1 + n100 * 100 + n4 * 4 + n1
    IN  IF n1 = 4 \/ n100 = 4 THEN <<year - 1, 12, 31>>
        ELSE LET month == CHOOSE m \in 1..12 :
                              /\ DaysBeforeMonth(year, m) <= r1
                              /\ r1 < DaysBeforeMonth(year, m) + DaysInMonth(year, m)
             IN  <<year, month, r1 - DaysBeforeMonth(year, month) + 1>>

MaxOrdinal == ToOrdinal(9999, 12, 31)

\* date + timedelta(days = n): OverflowError beyond date.max
DatePlusDays(dt, n) ==
    LET o == ToOrdinal(dt[1], dt[2], dt[3]) + n
    IN  IF 0 < o /\ o <= MaxOrdinal
        THEN [ok |-> TRUE, v |-> FromOrdinal(o)]
        ELSE [ok |-> FALSE, v |-> dt]

\* datetime + timedelta(minutes = n): OverflowError beyond datetime.max
DatetimePlusMinutes(dt, n) ==
    LET secs == dt[4] * 3600 + dt[5] * 60 + dt[6] + 60 * n
        o == ToOrdinal(dt[1], dt[2], dt[3]) + secs \div 86400
        rem == secs % 86400
    IN  IF 0 < o /\ o <= MaxOrdinal
        THEN [ok |-> TRUE,
              v |-> FromOrdinal(o) \o <<rem \div 3600, (rem % 3600) \div 60, rem % 60>>]
        ELSE [ok |-> FALSE, v |-> dt]

----------------------------------------------------------------------------
(* Time fields of an event: lines 170-193 *)

\* the result of an instance that yields no event
NoTimes == [outcome |-> "skip", all_day |-> FALSE, dtstart |-> <<>>, dtend |-> <<>>,
            has_tz |-> FALSE, tz_hours |-> 0]

\* timedelta(days = 1) of line 189 and timedelta(minutes = 1) of line 193
AllDaySpan == 1
TimedSpan == 1

\* EventTimes with the end of a timed event a day after its start
EventTimesDayLong(ds, tzh) ==
    IF ParsesFull(ds) THEN
        LET e == DatetimePlusMinutes(ds.f, 1440)
        IN  IF e.ok
            THEN [outcome |-> "event", all_day |-> FALSE, dtstart |-> ds.f, dtend |-> e.v,
                  has_tz |-> TRUE, tz_hours |-> tzh]
            ELSE [NoTimes EXCEPT !.outcome = "OverflowError"]
    ELSE IF ParsesDate(ds) THEN
        LET e == DatePlusDays(ds.f, AllDaySpan)
        IN  IF e.ok
            THEN [outcome |-> "event", all_day |-> TRUE, dtstart |-> ds.f, dtend |-> e.v,
                  has_tz |-> FALSE, tz_hours |-> 0]
            ELSE [NoTimes EXCEPT !.outcome = "OverflowError"]
    ELSE NoTimes

\* EventTimes with the ValueError of an unparsable date string not caught
EventTimesRaising(ds, tzh) ==
    IF ParsesFull(ds) THEN
        LET e == DatetimePlusMinutes(ds.f, TimedSpan)
        IN  IF e.ok
            THEN [outcome |-> "event", all_day |-> FALSE, dtstart |-> ds.f, dtend |-> e.v,
                  has_tz |-> TRUE, tz_hours |-> tzh]
            ELSE [NoTimes EXCEPT !.outcome = "OverflowError"]
    ELSE IF ParsesDate(ds) THEN
        LET e == DatePlusDays(ds.f, AllDaySpan)
        IN  IF e.ok
            THEN [outcome |-> "event", all_day |-> TRUE, dtstart |-> ds.f, dtend |-> e.v,
                  has_tz |-> FALSE, tz_hours |-> 0]
            ELSE [NoTimes EXCEPT !.outcome = "OverflowError"]
    ELSE [NoTimes EXCEPT !.outcome = "ValueError"]

EventTimes(ds, tzh) ==
    IF ParsesFull(ds) THEN
        LET e == DatetimePlusMinutes(ds.f, TimedSpan)
        IN  IF e.ok
            THEN [outcome |-> "event", all_day |-> FALSE, dtstart |-> ds.f, dtend |-> e.v,
                  has_tz |-> TRUE, tz_hours |-> tzh]
            ELSE [NoTimes EXCEPT !.outcome = "OverflowError"]
    ELSE IF ParsesDate(ds) THEN
        LET e == DatePlusDays(ds.f, AllDaySpan)
        IN  IF e.ok
            THEN [outcome |-> "event", all_day |-> TRUE, dtstart |-> ds.f, dtend |-> e.v,
                  has_tz |-> FALSE, tz_hours |-> 0]
            ELSE [NoTimes EXCEPT !.outcome = "OverflowError"]
    ELSE NoTimes

----------------------------------------------------------------------------
(* Rank summary line: lines 207-216 *)

\* a key the rank mapping does not have
NoKey == "<absent>"
NotApplicable == "N"

RankLine(system, grade) == <<system, " ", grade>>

RECURSIVE Join(_, _)
Join(sep, lines) ==
    IF lines = <<>> THEN <<>>
    ELSE IF Len(lines) = 1 THEN lines[1]
    ELSE lines[1] \o <<sep>> \o Join(sep, Tail(lines))

\* rank["ccf"] raises KeyError when the key is absent; rank.get(k, "N") does not
CcfLine(r) ==
    IF r.ccf # NotApplicable THEN <<RankLine("CCF", r.ccf)>> ELSE <<>>

OptLine(system, grade) ==
    IF (IF grade = NoKey THEN NotApplicable ELSE grade) # NotApplicable
    THEN <<RankLine(system, grade)>> ELSE <<>>

LevelDesc(r) ==
    IF r.ccf = NoKey THEN [state |-> "KeyError", present |-> FALSE, text |-> <<>>]
    ELSE LET lines == CcfLine(r) \o OptLine("CORE", r.core) \o OptLine("THCPL", r.thcpl)
         IN  [state |-> "ok", present |-> Len(lines) > 0, text |-> Join(", ", lines)]

----------------------------------------------------------------------------
(* convert_conferences_to_ical: lines 109-251.                             *)
(* The batch is read as the loops reach it: each loop header either takes  *)
(* the next element, whose content is chosen there, or finds its list      *)
(* exhausted.  Loop variables are cleared when their loop ends (the code   *)
(* never reads them again).                                                *)

\* at most this many deadline instances in a batch
MaxDeadlines == 3

Absent == [text |-> "absent", f |-> <<>>]

ConvTzStrs ==
    { Str_AoE,
      Str_UTC \o <<"-", "1", "2">>,
      Str_UTC \o <<"+", "8">>,
      Str_UTC \o <<"+", "2", "4">>,
      <<"G", "M", "T", "+", "5">> }

BareDate == [text |-> "num", f |-> <<2024, 2, 28>>]
FullStamp == [text |-> "num", f |-> <<2024, 12, 31, 23, 59, 59>>]
BadDate == [text |-> "num", f |-> <<2025, 6, 1, 23, 59>>]

ConvDateStrs == {TBD, BareDate, FullStamp, BadDate}

\* a timeline entry: each of the two keys is absent or holds a date string
Entries == [abstract_deadline : ConvDateStrs \cup {Absent},
            deadline : ConvDateStrs \cup {Absent}]

ConvRanks ==
    { [ccf |-> "A", core |-> NotApplicable, thcpl |-> NoKey],
      [ccf |-> NoKey, core |-> "A", thcpl |-> NoKey] }

NoRank == [ccf |-> NoKey, core |-> NoKey, thcpl |-> NoKey]
NoEntry == [abstract_deadline |-> Absent, deadline |-> Absent]

\* DeadlineList with the final deadline taken first
DeadlineListFinalFirst(e) ==
    (IF e.deadline # Absent THEN <<"deadline">> ELSE <<>>)
    \o (IF e.abstract_deadline # Absent THEN <<"abstract_deadline">> ELSE <<>>)

\* lines 135-139
DeadlineList(e) ==
    (IF e.abstract_deadline # Absent THEN <<"abstract_deadline">> ELSE <<>>)
    \o (IF e.deadline # Absent THEN <<"deadline">> ELSE <<>>)

\* create_vtimezone, lines 40-56
create_vtimezone(tzh) ==
    [comp |-> "VTIMEZONE", tzid |-> TzIdOf(tzh), offset_from |-> tzh, offset_to |-> tzh]

\* AddTzid with the identifier not remembered
AddTzidForgotten(added, tzid) == added

\* lines 151-154
AddTzid(added, tzid) == added \cup {tzid}

WithTimezone(c, added, tzh) ==
    IF TzIdOf(tzh) \notin added THEN Append(c, create_vtimezone(tzh)) ELSE c

\* lines 156-168
DeadlineStr(e, key) == IF key = "abstract_deadline" THEN e.abstract_deadline ELSE e.deadline

\* lines 182-247
MakeEvent(n, eid, key, ds, tzs, times, level) ==
    [comp |-> "VEVENT", uid |-> n, entry_id |-> eid, key |-> key,
     deadline_str |-> ds, timezone_str |-> tzs,
     all_day |-> times.all_day, dtstart |-> times.dtstart, dtend |-> times.dtend,
     has_tz |-> times.has_tz, tz_hours |-> times.tz_hours,
     level_desc |-> level.text]

\* the conversion touches none of the other variables
ConvFrame == UNCHANGED <<tzvars, rankvars, evvars, mainvars>>

ConvInit ==
    /\ pc = "records"
    /\ rank = NoRank
    /\ timezone_str = <<>>
    /\ entry = NoEntry
    /\ deadline_list = <<>>
    /\ cal = <<>>
    /\ added_tzids = {}
    /\ out = "untouched"
    /\ out_data = <<>>
    /\ n_inst = 0
    /\ entry_id = 0

\* line 119-124: the next record; a record lacking title, sub, rank or dblp
\* raises KeyError
NextRecord ==
    /\ pc = "records"
    /\ \E r \in ConvRanks, complete \in BOOLEAN :
          IF complete
          THEN pc' = "confs" /\ rank' = r
          ELSE pc' = "failed" /\ rank' = rank
    /\ UNCHANGED <<timezone_str, entry, deadline_list, cal, added_tzids,
                   out, out_data, n_inst, entry_id>>
    /\ ConvFrame

\* line 119: no record is left; control reaches line 250
EndRecords ==
    /\ pc = "records"
    /\ pc' = "open"
    /\ UNCHANGED <<rank, timezone_str, entry, deadline_list, cal, added_tzids,
                   out, out_data, n_inst, entry_id>>
    /\ ConvFrame

\* lines 126-132
NextConf ==
    /\ pc = "confs"
    /\ \E tzs \in ConvTzStrs : timezone_str' = tzs
    /\ pc' = "timeline"
    /\ UNCHANGED <<rank, entry, deadline_list, cal, added_tzids,
                   out, out_data, n_inst, entry_id>>
    /\ ConvFrame

EndConfs ==
    /\ pc = "confs"
    /\ pc' = "records"
    /\ rank' = NoRank
    /\ UNCHANGED <<timezone_str, entry, deadline_list, cal, added_tzids,
                   out, out_data, n_inst, entry_id>>
    /\ ConvFrame

\* lines 134-139
NextEntry ==
    /\ pc = "timeline"
    /\ \E e \in Entries :
          /\ n_inst + Len(DeadlineList(e)) <= MaxDeadlines
          /\ entry' = e
          /\ deadline_list' = DeadlineList(e)
    /\ entry_id' = n_inst + 1
    /\ pc' = "deadlines"
    /\ UNCHANGED <<rank, timezone_str, cal, added_tzids, out, out_data, n_inst>>
    /\ ConvFrame

EndTimeline ==
    /\ pc = "timeline"
    /\ pc' = "confs"
    /\ timezone_str' = <<>>
    /\ UNCHANGED <<rank, entry, deadline_list, cal, added_tzids,
                   out, out_data, n_inst, entry_id>>
    /\ ConvFrame

\* lines 140-247: one iteration of the loop over deadline_list
ProcessDeadline ==
    /\ pc = "deadlines"
    /\ deadline_list # <<>>
    /\ LET key == Head(deadline_list)
           tz == get_timezone(timezone_str)
           ds == DeadlineStr(entry, key)
           times == EventTimes(ds, tz.hours)
           level == LevelDesc(rank)
           cal1 == WithTimezone(cal, added_tzids, tz.hours)
       IN  /\ n_inst' = n_inst + 1
           /\ deadline_list' = Tail(deadline_list)
           /\ IF ~tz.ok
              THEN UNCHANGED <<pc, cal, added_tzids>>
              ELSE /\ added_tzids' = AddTzid(added_tzids, TzIdOf(tz.hours))
                   /\ IF ds = TBD \/ times.outcome = "skip"
                      THEN pc' = pc /\ cal' = cal1
                      ELSE IF times.outcome # "event" \/ level.state # "ok"
                      THEN pc' = "failed" /\ cal' = cal1
                      ELSE /\ pc' = pc
                           /\ cal' = Append(cal1, MakeEvent(n_inst + 1, entry_id, key, ds,
                                                            timezone_str, times, level))
    /\ UNCHANGED <<rank, timezone_str, entry, out, out_data, entry_id>>
    /\ ConvFrame

EndDeadlines ==
    /\ pc = "deadlines"
    /\ deadline_list = <<>>
    /\ pc' = "timeline"
    /\ entry' = NoEntry
    /\ UNCHANGED <<rank, timezone_str, deadline_list, cal, added_tzids,
                   out, out_data, n_inst, entry_id>>
    /\ ConvFrame

\* line 250: open(output_path, "wb") creates or truncates the file, or raises
OpenOutput ==
    /\ pc = "open"
    /\ \/ pc' = "serialize" /\ out' = "truncated"
       \/ pc' = "failed" /\ out' = out
    /\ UNCHANGED <<rank, timezone_str, entry, deadline_list, cal, added_tzids,
                   out_data, n_inst, entry_id>>
    /\ ConvFrame

\* line 251: cal.to_ical() is evaluated with the file already open
Serialize ==
    /\ pc = "serialize"
    /\ pc' \in {"write", "failed"}
    /\ UNCHANGED <<rank, timezone_str, entry, deadline_list, cal, added_tzids,
                   out, out_data, n_inst, entry_id>>
    /\ ConvFrame

\* line 251: f.write(...) writes the whole feed, or fails part-way (out_data
\* holds the content of a completely written file only)
WriteOutput ==
    /\ pc = "write"
    /\ \/ pc' = "done" /\ out' = "complete" /\ out_data' = cal
       \/ pc' = "failed" /\ out' = "partial" /\ out_data' = out_data
    /\ UNCHANGED <<rank, timezone_str, entry, deadline_list, cal, added_tzids,
                   n_inst, entry_id>>
    /\ ConvFrame

IdleTz == tz_str = <<>> /\ tz_res = [state |-> "idle", hours |-> 0] /\ tz_id = <<>>
IdleRank == rank_in = NoRank /\ level_res = [state |-> "idle", present |-> FALSE, text |-> <<>>]
IdleEv == ev_str = TBD /\ ev_tz = 0 /\ ev_res = [NoTimes EXCEPT !.outcome = "idle"]

IdleConv ==
    /\ pc = "idle" /\ rank = NoRank /\ timezone_str = <<>> /\ entry = NoEntry
    /\ deadline_list = <<>> /\ cal = <<>> /\ added_tzids = {} /\ out = "untouched"
    /\ out_data = <<>> /\ n_inst = 0 /\ entry_id = 0
IdleMain ==
    /\ fs = <<>> /\ conf_names = {} /\ mpc = "idle" /\ file_paths = <<>>
    /\ filtered_conferences = <<>> /\ handed = <<>> /\ message = "" /\ exit_code = 0

Init == ConvInit /\ IdleTz /\ IdleRank /\ IdleEv /\ IdleMain

Next ==
    \/ NextRecord \/ EndRecords \/ NextConf \/ EndConfs \/ NextEntry \/ EndTimeline
    \/ ProcessDeadline \/ EndDeadlines \/ OpenOutput \/ Serialize \/ WriteOutput

Spec == Init /\ [][Next]_vars

----------------------------------------------------------------------------
(* get_timezone and create_vtimezone on one descriptor *)

DigitSet == {DigitChars[k] : k \in 1..10}

DigitStrs ==
    {<<>>} \cup {<<a>> : a \in DigitSet} \cup {<<a, b>> : a, b \in DigitSet}
    \cup {<<a, b, c>> : a, b, c \in {"0", "1", "9"}}

TzDescriptors ==
    {Str_AoE, <<"a", "o", "e">>, <<"A", "o", "E", " ">>}
    \cup { pre \o sg \o ds \o suf :
             pre \in {Str_UTC, <<"G", "M", "T">>},
             sg \in {<<"+">>, <<"-">>, <<>>},
             ds \in DigitStrs,
             suf \in {<<>>, <<"x">>, <<"\n">>} }

TzInit ==
    /\ tz_str \in TzDescriptors
    /\ tz_res = [state |-> "pending", hours |-> 0]
    /\ tz_id = <<>>
    /\ IdleRank /\ IdleEv /\ IdleConv /\ IdleMain

\* lines 28-37
Resolve ==
    /\ tz_res.state = "pending"
    /\ LET r == get_timezone(tz_str)
       IN  tz_res' = IF r.ok THEN [state |-> "ok", hours |-> r.hours]
                             ELSE [state |-> "ValueError", hours |-> 0]
    /\ UNCHANGED <<tz_str, tz_id, rankvars, evvars, convvars, mainvars>>

\* lines 42-47
CreateVtimezone ==
    /\ tz_res.state = "ok"
    /\ tz_id = <<>>
    /\ tz_id' = create_vtimezone(tz_res.hours).tzid
    /\ UNCHANGED <<tz_str, tz_res, rankvars, evvars, convvars, mainvars>>

TzNext == Resolve \/ CreateVtimezone

SpecTz == TzInit /\ [][TzNext]_vars

----------------------------------------------------------------------------
(* The rank summary of one rank mapping *)

Grades == {"A", "B", "C", NotApplicable}

Ranks == [ccf : Grades \cup {NoKey}, core : Grades \cup {NoKey}, thcpl : Grades \cup {NoKey}]

RankInit ==
    /\ rank_in \in Ranks
    /\ level_res = [state |-> "pending", present |-> FALSE, text |-> <<>>]
    /\ IdleTz /\ IdleEv /\ IdleConv /\ IdleMain

\* lines 207-216
BuildLevelDesc ==
    /\ level_res.state = "pending"
    /\ level_res' = LevelDesc(rank_in)
    /\ UNCHANGED <<rank_in, tzvars, evvars, convvars, mainvars>>

RankNext == BuildLevelDesc

SpecRank == RankInit /\ [][RankNext]_vars

----------------------------------------------------------------------------
(* The time fields of one event *)

EvDateStrs ==
    {TBD}
    \cup { [text |-> "num", f |-> <<y, m, d>>] :
             y \in {2024, 2025, 9999}, m \in {0, 1, 2, 6, 12, 13},
             d \in {0, 1, 28, 29, 30, 31, 32} }
    \cup { [text |-> "num", f |-> <<y, m, d, h, mi, sec>>] :
             y \in {2024, 2025, 9999}, m \in {2, 12, 13}, d \in {28, 29, 31},
             h \in {0, 22, 23, 24}, mi \in {0, 58, 59, 60}, sec \in {0, 59, 60} }
    \cup { [text |-> "num", f |-> <<2025, 6, 1, h, mi>>] : h \in {0, 23}, mi \in {0, 59} }

EvInit ==
    /\ ev_str \in EvDateStrs
    /\ ev_tz \in {-12, 0, 8}
    /\ ev_res = [NoTimes EXCEPT !.outcome = "pending"]
    /\ IdleTz /\ IdleRank /\ IdleConv /\ IdleMain

\* lines 167-193
SynthesizeTimes ==
    /\ ev_res.outcome = "pending"
    /\ ev_res' = IF ev_str = TBD THEN NoTimes ELSE EventTimes(ev_str, ev_tz)
    /\ UNCHANGED <<ev_str, ev_tz, tzvars, rankvars, convvars, mainvars>>

EvNext == SynthesizeTimes

SpecEvent == EvInit /\ [][EvNext]_vars

----------------------------------------------------------------------------
(* main, find_conference_files and filter_conferences_by_name              *)

MaxFiles == 2
MaxPerFile == 2
MaxNames == 2

UpperChars == <<"C", "V", "X", "I">>
LowerChars == <<"c", "v", "x", "i">>

\* str.lower()
LowerChar(c) ==
    IF \E k \in 1..Len(UpperChars) : UpperChars[k] = c
    THEN LowerChars[CHOOSE k \in 1..Len(UpperChars) : UpperChars[k] = c]
    ELSE c

Lower(cs) == [k \in 1..Len(cs) |-> LowerChar(cs[k])]

\* Contains with the characters of the name tried one by one
ContainsAnyChar(needle, hay) ==
    \E j \in 1..Len(needle), k \in 1..Len(hay) : hay[k] = needle[j]

\* needle in hay
Contains(needle, hay) ==
    \E k \in 0..(Len(hay) - Len(needle)) : SubSeq(hay, k + 1, k + Len(needle)) = needle

\* lines 79-80 and 100-101
TitleMatches(title, names) ==
    \E nm \in names : Contains(Lower(nm), Lower(title))

FileMatches(file, names) == \E k \in 1..Len(file) : TitleMatches(file[k].title, names)

\* lines 59-86: the paths (indices) of the files holding a matching record
RECURSIVE find_conference_files(_, _, _)
find_conference_files(names, dir, k) ==
    IF k > Len(dir) THEN <<>>
    ELSE (IF FileMatches(dir[k], names) THEN <<k>> ELSE <<>>)
         \o find_conference_files(names, dir, k + 1)

RECURSIVE MatchingOf(_, _)
MatchingOf(file, names) ==
    IF file = <<>> THEN <<>>
    ELSE (IF TitleMatches(Head(file).title, names) THEN <<Head(file)>> ELSE <<>>)
         \o MatchingOf(Tail(file), names)

\* lines 89-106
RECURSIVE filter_conferences_by_name(_, _, _)
filter_conferences_by_name(paths, names, dir) ==
    IF paths = <<>> THEN <<>>
    ELSE MatchingOf(dir[Head(paths)], names)
         \o filter_conferences_by_name(Tail(paths), names, dir)

Records ==
    { [id |-> 1, title |-> <<"C", "V", "x">>],
      [id |-> 2, title |-> <<"I", "C">>] }

Names == { <<"c", "v">>, <<"X">>, <<"i", "c">> }

SeqsUpTo(S, n) == UNION {[1..k -> S] : k \in 0..n}

MainInit ==
    /\ fs \in SeqsUpTo(SeqsUpTo(Records, MaxPerFile), MaxFiles)
    /\ conf_names \in {ns \in SUBSET Names : Cardinality(ns) \in 1..MaxNames}
    /\ mpc = "load_mapping"
    /\ file_paths = <<>>
    /\ filtered_conferences = <<>>
    /\ handed = <<>>
    /\ message = ""
    /\ exit_code = 0
    /\ IdleTz /\ IdleRank /\ IdleEv /\ IdleConv

MainFrame == UNCHANGED <<tzvars, rankvars, evvars>>
ConvIdleFrame == UNCHANGED <<pc, rank, timezone_str, entry, deadline_list, cal,
                             added_tzids, out_data, n_inst, entry_id>>

\* lines 280-284
LoadMapping ==
    /\ mpc = "load_mapping"
    /\ \/ mpc' = "find" /\ UNCHANGED <<message, exit_code>>
       \/ mpc' = "exit" /\ message' = "types.yml not found" /\ exit_code' = 1
    /\ UNCHANGED <<fs, conf_names, file_paths, filtered_conferences, handed, out>>
    /\ MainFrame /\ ConvIdleFrame

\* lines 287-291
FindFiles ==
    /\ mpc = "find"
    /\ file_paths' = find_conference_files(conf_names, fs, 1)
    /\ IF file_paths' = <<>>
       THEN mpc' = "exit" /\ message' = "No conference files found" /\ exit_code' = 1
       ELSE mpc' = "filter" /\ UNCHANGED <<message, exit_code>>
    /\ UNCHANGED <<fs, conf_names, filtered_conferences, handed, out>>
    /\ MainFrame /\ ConvIdleFrame

\* lines 294-298
FilterConferences ==
    /\ mpc = "filter"
    /\ filtered_conferences' = filter_conferences_by_name(file_paths, conf_names, fs)
    /\ IF filtered_conferences' = <<>>
       THEN mpc' = "exit" /\ message' = "No conferences found" /\ exit_code' = 1
       ELSE mpc' = "convert" /\ UNCHANGED <<message, exit_code>>
    /\ UNCHANGED <<fs, conf_names, file_paths, handed, out>>
    /\ MainFrame /\ ConvIdleFrame

\* lines 307-310: the conversion is handed the filtered records; it ends with
\* the output file in one of the states the conversion can leave it in
Convert ==
    /\ mpc = "convert"
    /\ handed' = filtered_conferences
    /\ \/ out' = "complete" /\ mpc' = "exit" /\ message' = "Generated ICS file"
          /\ exit_code' = 0
       \/ out' \in {"untouched", "truncated", "partial"} /\ mpc' = "exit"
          /\ message' = "Traceback" /\ exit_code' = 1
    /\ UNCHANGED <<fs, conf_names, file_paths, filtered_conferences>>
    /\ MainFrame /\ ConvIdleFrame

MainNext == LoadMapping \/ FindFiles \/ FilterConferences \/ Convert

SpecMain == MainInit /\ [][MainNext]_vars

----------------------------------------------------------------------------
(* Properties *)

IsEvent(c) == c.comp = "VEVENT"
IsTimezone(c) == c.comp = "VTIMEZONE"
Events(c) == SelectSeq(c, IsEvent)
Declarations(c) == SelectSeq(c, IsTimezone)

\* "UTC+N" / "UTC-N" written with one digit, or with two
UtcDescriptor(sg, n, two) ==
    Str_UTC \o <<sg>> \o (IF two /\ n < 10 THEN <<"0">> ELSE <<>>) \o Digits(n)

\* the offset identifier each descriptor of ConvTzStrs stands for
OffsetIdOf(tzs) ==
    IF tzs \in {Str_AoE, Str_UTC \o <<"-", "1", "2">>}
    THEN <<"U", "T", "C", "-", "1", "2", ":", "0", "0">>
    ELSE IF tzs = Str_UTC \o <<"+", "8">>
    THEN <<"U", "T", "C", "+", "0", "8", ":", "0", "0">>
    ELSE <<>>

NoDuplicateDeclarations(c) ==
    /\ \A a, b \in 1..Len(c) :
          (a # b /\ IsTimezone(c[a]) /\ IsTimezone(c[b])) => c[a].tzid # c[b].tzid
    /\ \A a \in 1..Len(c) :
          IsEvent(c[a]) =>
             Cardinality({b \in 1..Len(c) :
                            IsTimezone(c[b]) /\ c[b].tzid = OffsetIdOf(c[a].timezone_str)}) = 1

\* C1: the feed, while assembled and as written, holds no two timezone
\* declarations with the same offset identifier, and exactly one declaration
\* for the offset of each event, whatever raw descriptor the event came with.
Thm_C1 ==
    /\ NoDuplicateDeclarations(cal)
    /\ out = "complete" => NoDuplicateDeclarations(out_data)

\* a written feed with an "AoE" event and a "UTC-12" event and one declaration
Wit_C1 ==
    /\ out = "complete"
    /\ \E a, b \in 1..Len(out_data) :
          /\ IsEvent(out_data[a]) /\ out_data[a].timezone_str = Str_AoE
          /\ IsEvent(out_data[b]) /\ out_data[b].timezone_str = Str_UTC \o <<"-", "1", "2">>
    /\ Len(Declarations(out_data)) = 1

\* C2 as stated: every "UTC+N" / "UTC-N" with N from 0 to 99 resolves to an
\* offset of N hours with the descriptor's sign, "AoE" resolves to -12 hours,
\* and none of them fails.
Orig_C2 ==
    tz_res.state # "pending" =>
       /\ tz_str = Str_AoE => tz_res = [state |-> "ok", hours |-> -12]
       /\ \A n \in 0..99, two \in BOOLEAN :
             /\ tz_str = UtcDescriptor("+", n, two) => tz_res = [state |-> "ok", hours |-> n]
             /\ tz_str = UtcDescriptor("-", n, two) => tz_res = [state |-> "ok", hours |-> -n]

\* C2 amended: for N from 0 to 23 the descriptor resolves to an offset of N
\* hours with the descriptor's sign and "AoE" resolves to -12 hours; for N
\* from 24 to 99 the resolution ends in a ValueError.
Thm_C2 ==
    tz_res.state # "pending" =>
       /\ tz_str = Str_AoE => tz_res = [state |-> "ok", hours |-> -12]
       /\ \A n \in 0..99, two \in BOOLEAN, sg \in {"+", "-"} :
             tz_str = UtcDescriptor(sg, n, two) =>
                IF n <= 23
                THEN tz_res = [state |-> "ok", hours |-> IF sg = "+" THEN n ELSE -n]
                ELSE tz_res.state = "ValueError"

Wit_C2 ==
    /\ tz_str = UtcDescriptor("-", 23, FALSE)
    /\ tz_res = [state |-> "ok", hours |-> -23]

\* the instance the loop over deadline_list is about to process
AtInstance == pc = "deadlines" /\ deadline_list # <<>>
CurStr == DeadlineStr(entry, Head(deadline_list))
CurTzMalformed ==
    /\ timezone_str # Str_AoE
    /\ \A n \in 0..99, two \in BOOLEAN, sg \in {"+", "-"} :
          timezone_str # UtcDescriptor(sg, n, two)
CurTzResolvable ==
    \/ timezone_str = Str_AoE
    \/ \E n \in 0..23, two \in BOOLEAN, sg \in {"+", "-"} :
          timezone_str = UtcDescriptor(sg, n, two)
CurDateMalformed == CurStr = BadDate
CurDateGood == CurStr \in {BareDate, FullStamp}

\* C3: an instance with a malformed timezone descriptor or an unparsable
\* date string does not end the run and adds no event; the events already in
\* the feed stay, every instance with a resolvable descriptor and a parsable
\* date (in a record that has its ccf grade, see C6) appends its event, and
\* the feed is written as assembled.
Thm_C3 ==
    [][ /\ AtInstance /\ (CurTzMalformed \/ CurDateMalformed) =>
            /\ pc' = "deadlines"
            /\ deadline_list' = Tail(deadline_list)
            /\ Events(cal') = Events(cal)
        /\ AtInstance /\ CurTzResolvable /\ CurDateGood /\ rank.ccf # NoKey =>
            /\ pc' = "deadlines"
            /\ Len(Events(cal')) = Len(Events(cal)) + 1
            /\ SubSeq(Events(cal'), 1, Len(Events(cal))) = Events(cal)
            /\ LET e == Events(cal')[Len(Events(cal'))]
               IN  /\ e.uid = n_inst + 1
                   /\ e.key = Head(deadline_list)
                   /\ e.deadline_str = CurStr
                   /\ e.timezone_str = timezone_str
        /\ Len(Events(cal)) <= Len(Events(cal'))
        /\ SubSeq(Events(cal'), 1, Len(Events(cal))) = Events(cal)
        /\ out' = "complete" => out_data' = cal'
      ]_vars

\* an entry whose abstract deadline is unparsable was processed as the second
\* and third instance: the first and the third instance have their events
Wit_C3 ==
    /\ pc = "deadlines" /\ deadline_list = <<>>
    /\ entry = [abstract_deadline |-> BadDate, deadline |-> FullStamp]
    /\ n_inst = 3
    /\ Len(Events(cal)) = 2
    /\ Events(cal)[1].uid = 1
    /\ Events(cal)[2].uid = 3

\* C4 as stated: the output file is touched only after every record has been
\* processed, and no failure, while processing or while serializing, leaves
\* it partial, truncated or differing from the assembled feed.
Orig_C4 ==
    /\ out # "untouched" => pc \in {"serialize", "write", "done", "failed"}
    /\ pc = "failed" => out = "untouched"
    /\ pc = "done" => out = "complete" /\ out_data = cal

IsNextDay(a, b) ==
    IF a[3] < DaysInMonth(a[1], a[2]) THEN b = <<a[1], a[2], a[3] + 1>>
    ELSE IF a[2] < 12 THEN b = <<a[1], a[2] + 1, 1>>
    ELSE b = <<a[1] + 1, 1, 1>>

\* end is one minute after start
IsNextMinute(a, b) ==
    IF a[5] < 59 THEN b = <<a[1], a[2], a[3], a[4], a[5] + 1, a[6]>>
    ELSE IF a[4] < 23 THEN b = <<a[1], a[2], a[3], a[4] + 1, 0, a[6]>>
    ELSE /\ IsNextDay(SubSeq(a, 1, 3), SubSeq(b, 1, 3))
         /\ SubSeq(b, 4, 6) = <<0, 0, a[6]>>

\* C8: an event made from a bare date is all-day, starts on that date without
\* time of day or timezone and ends on the next calendar day; an event made
\* from a full timestamp starts at that timestamp in the resolved offset and
\* ends one minute later; no event is made from anything else.
Thm_C8 ==
    ev_res.outcome = "event" =>
       /\ ev_str.text = "num"
       /\ Len(ev_str.f) \in {3, 6}
       /\ ev_res.dtstart = ev_str.f
       /\ Len(ev_str.f) = 3 =>
             /\ ev_res.all_day /\ ~ev_res.has_tz
             /\ Len(ev_res.dtend) = 3
             /\ IsNextDay(ev_res.dtstart, ev_res.dtend)
       /\ Len(ev_str.f) = 6 =>
             /\ ~ev_res.all_day /\ ev_res.has_tz /\ ev_res.tz_hours = ev_tz
             /\ Len(ev_res.dtend) = 6
             /\ IsNextMinute(ev_res.dtstart, ev_res.dtend)

Wit_C8 ==
    /\ ev_res.outcome = "event"
    /\ ev_tz = 8
    /\ ev_res.dtstart = <<2024, 12, 31, 23, 59, 59>>
    /\ ev_res.dtend = <<2025, 1, 1, 0, 0, 59>>

\* the same letter, whatever the case
SameLetter(a, b) ==
    \/ a = b
    \/ \E k \in 1..Len(UpperChars) : {a, b} = {UpperChars[k], LowerChars[k]}

\* name occurs in title, case ignored
OccursIn(name, title) ==
    \E k \in 0..(Len(title) - Len(name)) :
       \A j \in 1..Len(name) : SameLetter(name[j], title[k + j])

Requested(rec) == \E nm \in conf_names : OccursIn(nm, rec.title)

AllRecords == UNION {{fs[a][b] : b \in 1..Len(fs[a])} : a \in 1..Len(fs)}

\* C5 as stated: the conversion is handed exactly the requested records, each
\* of them once.
Orig_C5 ==
    handed # <<>> =>
       /\ {handed[k] : k \in 1..Len(handed)} = {r \in AllRecords : Requested(r)}
       /\ \A a, b \in 1..Len(handed) : a # b => handed[a] # handed[b]

\* the rank systems that qualify, in priority order
Qualifies(g) == g # NoKey /\ g # "N"

\* C6 as stated: the summary never fails; it lists CCF, CORE, THCPL in this
\* order, each only with a grade that is present and not "N", joined by ", ",
\* and is omitted when none qualifies.
Orig_C6 ==
    level_res.state # "pending" =>
       LET c == IF Qualifies(rank_in.ccf) THEN <<<<"CCF", " ", rank_in.ccf>>>> ELSE <<>>
           o == IF Qualifies(rank_in.core) THEN <<<<"CORE", " ", rank_in.core>>>> ELSE <<>>
           t == IF Qualifies(rank_in.thcpl) THEN <<<<"THCPL", " ", rank_in.thcpl>>>> ELSE <<>>
           all == c \o o \o t
       IN  /\ level_res.state = "ok"
           /\ level_res.present = (all # <<>>)
           /\ level_res.text =
                 IF Len(all) = 0 THEN <<>>
                 ELSE IF Len(all) = 1 THEN all[1]
                 ELSE IF Len(all) = 2 THEN all[1] \o <<", ">> \o all[2]
                 ELSE all[1] \o <<", ">> \o all[2] \o <<", ">> \o all[3]

NoRecordRequested == \A r \in AllRecords : ~Requested(r)

\* C9: when no record is requested by any name, the conversion is never
\* called and no output file is written; main ends with exit code 1 after
\* reporting that nothing matched.
Thm_C9 ==
    NoRecordRequested =>
       /\ handed = <<>>
       /\ out = "untouched"
       /\ mpc # "convert"
       /\ (mpc = "exit" /\ message # "types.yml not found") =>
             /\ exit_code = 1
             /\ message \in {"No conference files found", "No conferences found"}

\* a directory with a record, none requested: main has reported and ended
Wit_C9 ==
    /\ NoRecordRequested
    /\ AllRecords # {}
    /\ mpc = "exit"
    /\ message = "No conference files found"

\* C10 as stated: the declarations of the assembled feed are exactly the
\* offsets of the events emitted.
Orig_C10 ==
    pc \in {"open", "serialize", "write", "done"} =>
       {cal[a].tzid : a \in {b \in 1..Len(cal) : IsTimezone(cal[b])}}
          = {OffsetIdOf(cal[a].timezone_str) : a \in {b \in 1..Len(cal) : IsEvent(cal[b])}}

====
